---- MODULE Spec2Model ----
(***************************************************************************)
(* Model of discovery/etcd.go (cloudwebrtc/ion): the Etcd registry adapter. *)
(* The adapter keeps a lock-guarded ledger liveKeyID (key -> lease id) and  *)
(* talks to an etcd store through clientv3: Grant, Put, KeepAlive, Delete,  *)
(* Get, Watch and Close.  Every clientv3 call is one atomic step of the     *)
(* calling goroutine; goroutines interleave between calls.  A section of    *)
(* liveKeyIDLock that contains no store call (keep, del, update) is one     *)
(* step guarded by the lock being free; close holds the lock across steps.  *)
(***************************************************************************)
EXTENDS Naturals, Sequences, FiniteSets, TLC

\* ---------------------------------------------------------------- bounds
MaxLeases == 2      \* leases the store grants before Grant fails
MaxCalls == 2       \* operations invoked in one run of concurrent callers
MaxSeqCalls == 3    \* operations invoked in one run of a single caller

\* Two goroutines, the keys "a" and "aa" (the first a prefix of the second)
\* and two values.
Procs == {1, 2}
Keys == {<<1>>, <<1, 1>>}
Values == {1, 2}

\* clientv3.LeaseID zero value: what a Go map lookup of an absent key gives,
\* and what etcd reads as "no lease".
NoLease == 0

Ops == {"keep", "update", "del", "close", "get", "getByPrefix", "watch"}

VARIABLES
    liveKeyID,   \* Etcd.liveKeyID: function from the ledgered keys to lease ids
    lock,        \* Etcd.liveKeyIDLock: 0 when free, else the holder
    sweep,       \* close(): keys of the range loop not yet visited
    closed,      \* the clientv3 client has been closed
    mute,        \* store: it has stopped answering calls
    kvs,         \* store: function from the stored keys to [val, lease]
    leases,      \* store: leases that are alive
    renewing,    \* store/client: leases with a running KeepAlive stream
    nextLease,   \* store: next lease id to grant
    pc,          \* per goroutine: position in its operation
    op,          \* per goroutine: the operation it runs
    key,         \* per goroutine: argument key
    val,         \* per goroutine: argument value
    watchFunc,   \* per goroutine: watch's callback argument is not nil
    prefix,      \* per goroutine: watch's prefix argument
    id,          \* per goroutine: update's local id (looked-up lease)
    resp,        \* per goroutine: keep's resp.ID (granted lease)
    err,         \* per goroutine: the error it returns ("nil" or the failed call)
    res,         \* per goroutine: <<>> for nil, else <<x>>: getByPrefix's map,
                 \* get's string, or the WatchChan watch gave to the callback
    trail,       \* history: the ledger and store calls of the current operation
    env,         \* history: a store fault or a lease loss hit the current operation
    pre,         \* history: ledger and store when the operation was invoked
    rec,         \* history: whether pre and last are kept (single-caller runs only)
    last,        \* history: <<>> or <<the operation that returned last>>
    calls        \* number of operations invoked

vars == <<liveKeyID, lock, sweep, closed, mute, kvs, leases, renewing, nextLease,
          pc, op, key, val, watchFunc, prefix, id, resp, err, res, trail, env,
          pre, rec, last, calls>>

ledgerVars == <<liveKeyID, lock, sweep>>
storeVars == <<kvs, leases, renewing, nextLease, closed, mute>>
callVars == <<op, key, val, watchFunc, prefix>>
histVars == <<pre, rec, last, calls>>

\* ------------------------------------------------------- pure definitions
EmptyMap == [k \in {} |-> 0]

NoSnapshot == [ledger |-> EmptyMap, kvs |-> EmptyMap]

\* Mutant of HasPrefix: the WithPrefix option is left out, only the key
\* itself matches.
HasPrefix_Exact(k, p) == k = p

\* strings.HasPrefix as etcd's WithPrefix range applies it
HasPrefix(k, p) == Len(p) <= Len(k) /\ SubSeq(k, 1, Len(p)) = p

\* id := e.liveKeyID[key]: the zero LeaseID when the key is absent
Lookup(k) == IF k \in DOMAIN liveKeyID THEN liveKeyID[k] ELSE NoLease

\* Mutant of LedgerPut: an entry that exists is kept, only a new key is added.
LedgerPut_KeepsOld(k, l) ==
    IF k \in DOMAIN liveKeyID
    THEN liveKeyID
    ELSE [x \in DOMAIN liveKeyID \cup {k} |-> IF x = k THEN l ELSE liveKeyID[x]]

\* e.liveKeyID[key] = resp.ID
LedgerPut(k, l) == [x \in DOMAIN liveKeyID \cup {k} |-> IF x = k THEN l ELSE liveKeyID[x]]

\* delete(e.liveKeyID, key)
LedgerDelete(k) == [x \in DOMAIN liveKeyID \ {k} |-> liveKeyID[x]]

\* Mutant of PutAccepted: a Put under a dead lease is taken without an error.
PutAccepted_AnyLease(l) == ~closed

\* store: a Put is accepted with no lease or with a lease that is alive
PutAccepted(l) == ~closed /\ (l = NoLease \/ l \in leases)

\* Mutant of StorePut: the WithLease option is left out.
StorePut_NoLease(k, v, l) == [x \in DOMAIN kvs \cup {k} |-> IF x = k THEN [val |-> v, lease |-> NoLease] ELSE kvs[x]]

\* store: Put(key, value, WithLease(l))
StorePut(k, v, l) == [x \in DOMAIN kvs \cup {k} |-> IF x = k THEN [val |-> v, lease |-> l] ELSE kvs[x]]

\* Mutant of KeepAliveStart: the renewal stream is never started.
KeepAliveStart_Never(l) == renewing

\* client: KeepAlive(l) starts a renewal stream; a stream for a lease that is
\* already gone ends at once and renews nothing
KeepAliveStart(l) == renewing \cup ({l} \cap leases)

\* store: Delete(key)
StoreDelete(k) == [x \in DOMAIN kvs \ {k} |-> kvs[x]]

\* store: Get(key, WithPrefix()) folded into the map getByPrefix builds
PrefixMap(p) == [k \in {x \in DOMAIN kvs : HasPrefix(x, p)} |-> kvs[k].val]

\* store: losing lease l removes every record attached to it
DropLease(l) == [x \in {y \in DOMAIN kvs : kvs[y].lease # l} |-> kvs[x]]

Entry(o) ==
    CASE o = "keep" -> "keepGrant"
      [] o = "update" -> "updLook"
      [] o = "del" -> "delLedger"
      [] o = "close" -> "closeLock"
      [] o = "get" -> "getGet"
      [] o = "getByPrefix" -> "gbpGet"
      [] o = "watch" -> "watch"

Busy(p) == pc[p] # "idle"

\* A call made under context.TODO() has no deadline: it returns when the
\* store answers or when the client is closed under it.
Answered == ~mute \/ closed

\* ------------------------------------------------------------------ Init
Init ==
    /\ liveKeyID = EmptyMap
    /\ lock = 0
    /\ sweep = {}
    /\ closed = FALSE
    /\ mute = FALSE
    /\ kvs = EmptyMap
    /\ leases = {}
    /\ renewing = {}
    /\ nextLease = 1
    /\ pc = [p \in Procs |-> "idle"]
    /\ op = [p \in Procs |-> "none"]
    /\ key = [p \in Procs |-> <<>>]
    /\ val = [p \in Procs |-> 0]
    /\ watchFunc = [p \in Procs |-> FALSE]
    /\ prefix = [p \in Procs |-> FALSE]
    /\ id = [p \in Procs |-> NoLease]
    /\ resp = [p \in Procs |-> NoLease]
    /\ err = [p \in Procs |-> "nil"]
    /\ res = [p \in Procs |-> <<>>]
    /\ trail = [p \in Procs |-> <<>>]
    /\ env = [p \in Procs |-> FALSE]
    /\ pre = [p \in Procs |-> NoSnapshot]
    /\ rec = FALSE
    /\ last = <<>>
    /\ calls = 0

\* ------------------------------------------------------------ operations
\* A caller invokes keep, update, del, close, get, getByPrefix or watch.
\* After close() the registry is terminal: no operation is invoked on a
\* closed client.
Call(p) ==
    /\ pc[p] = "idle"
    /\ ~closed
    /\ calls < (IF rec THEN MaxSeqCalls ELSE MaxCalls)
    /\ \E o \in Ops, k \in Keys, v \in Values, f \in BOOLEAN, x \in BOOLEAN :
        /\ o \notin {"keep", "update"} => v = 1
        /\ o = "close" => k = <<1>>
        /\ o # "watch" => ~f /\ ~x
        /\ op' = [op EXCEPT ![p] = o]
        /\ key' = [key EXCEPT ![p] = k]
        /\ val' = [val EXCEPT ![p] = IF o \in {"keep", "update"} THEN v ELSE 0]
        /\ watchFunc' = [watchFunc EXCEPT ![p] = f]
        /\ prefix' = [prefix EXCEPT ![p] = x]
        /\ pc' = [pc EXCEPT ![p] = Entry(o)]
    /\ calls' = calls + 1
    /\ pre' = IF rec THEN [pre EXCEPT ![p] = [ledger |-> liveKeyID, kvs |-> kvs]] ELSE pre
    /\ UNCHANGED <<ledgerVars, storeVars, id, resp, err, res, trail, env, rec, last>>

\* keep: resp, err := e.client.Grant(ctx, defaultGrantTimeout)
KeepGrant(p) ==
    /\ pc[p] = "keepGrant"
    /\ Answered
    /\ \/ /\ ~closed
          /\ nextLease <= MaxLeases
          /\ resp' = [resp EXCEPT ![p] = nextLease]
          /\ leases' = leases \cup {nextLease}
          /\ nextLease' = nextLease + 1
          /\ pc' = [pc EXCEPT ![p] = "keepPut"]
          /\ trail' = [trail EXCEPT ![p] = Append(@, "Grant")]
          /\ UNCHANGED <<err, env>>
       \/ /\ err' = [err EXCEPT ![p] = "Grant"]
          /\ pc' = [pc EXCEPT ![p] = "ret"]
          /\ trail' = [trail EXCEPT ![p] = Append(@, "GrantFail")]
          /\ env' = [env EXCEPT ![p] = TRUE]
          /\ UNCHANGED <<resp, leases, nextLease>>
    /\ UNCHANGED <<ledgerVars, closed, mute, kvs, renewing, callVars, id, res, histVars>>

\* Mutant of KeepPut: the ledger is written as soon as the publish succeeds,
\* before the renewal stream is started.
KeepPut_WritesLedger(p) ==
    /\ pc[p] = "keepPut"
    /\ Answered
    /\ \/ /\ PutAccepted(resp[p])
          /\ lock = 0
          /\ kvs' = StorePut(key[p], val[p], resp[p])
          /\ liveKeyID' = LedgerPut(key[p], resp[p])
          /\ pc' = [pc EXCEPT ![p] = "keepAlive"]
          /\ trail' = [trail EXCEPT ![p] = Append(@, "Put")]
          /\ UNCHANGED <<err, env>>
       \/ /\ err' = [err EXCEPT ![p] = "Put"]
          /\ pc' = [pc EXCEPT ![p] = "ret"]
          /\ trail' = [trail EXCEPT ![p] = Append(@, "PutFail")]
          /\ env' = [env EXCEPT ![p] = TRUE]
          /\ UNCHANGED <<kvs, liveKeyID>>
    /\ UNCHANGED <<lock, sweep, closed, mute, leases, renewing, nextLease, callVars,
                   id, resp, res, histVars>>

\* Mutant of KeepPut: a failed publish discards the key's ledger entry.
KeepPut_DiscardsEntry(p) ==
    /\ pc[p] = "keepPut"
    /\ Answered
    /\ \/ /\ PutAccepted(resp[p])
          /\ kvs' = StorePut(key[p], val[p], resp[p])
          /\ pc' = [pc EXCEPT ![p] = "keepAlive"]
          /\ trail' = [trail EXCEPT ![p] = Append(@, "Put")]
          /\ UNCHANGED <<err, env, liveKeyID>>
       \/ /\ lock = 0
          /\ liveKeyID' = LedgerDelete(key[p])
          /\ err' = [err EXCEPT ![p] = "Put"]
          /\ pc' = [pc EXCEPT ![p] = "ret"]
          /\ trail' = [trail EXCEPT ![p] = Append(@, "PutFail")]
          /\ env' = [env EXCEPT ![p] = TRUE]
          /\ UNCHANGED kvs
    /\ UNCHANGED <<lock, sweep, closed, mute, leases, renewing, nextLease, callVars,
                   id, resp, res, histVars>>

\* keep: _, err = e.client.Put(ctx, key, value, clientv3.WithLease(resp.ID))
KeepPut(p) ==
    /\ pc[p] = "keepPut"
    /\ Answered
    /\ \/ /\ PutAccepted(resp[p])
          /\ kvs' = StorePut(key[p], val[p], resp[p])
          /\ pc' = [pc EXCEPT ![p] = "keepAlive"]
          /\ trail' = [trail EXCEPT ![p] = Append(@, "Put")]
          /\ UNCHANGED <<err, env>>
       \/ /\ err' = [err EXCEPT ![p] = "Put"]
          /\ pc' = [pc EXCEPT ![p] = "ret"]
          /\ trail' = [trail EXCEPT ![p] = Append(@, "PutFail")]
          /\ env' = [env EXCEPT ![p] = TRUE]
          /\ UNCHANGED kvs
    /\ UNCHANGED <<ledgerVars, closed, mute, leases, renewing, nextLease, callVars,
                   id, resp, res, histVars>>

\* keep: _, err = e.client.KeepAlive(ctx, resp.ID)
KeepAlive(p) ==
    /\ pc[p] = "keepAlive"
    /\ \/ /\ ~closed
          /\ renewing' = KeepAliveStart(resp[p])
          /\ pc' = [pc EXCEPT ![p] = "keepWrite"]
          /\ trail' = [trail EXCEPT ![p] = Append(@, "KeepAlive")]
          /\ UNCHANGED <<err, env>>
       \/ /\ err' = [err EXCEPT ![p] = "KeepAlive"]
          /\ pc' = [pc EXCEPT ![p] = "ret"]
          /\ trail' = [trail EXCEPT ![p] = Append(@, "KeepAliveFail")]
          /\ env' = [env EXCEPT ![p] = TRUE]
          /\ UNCHANGED renewing
    /\ UNCHANGED <<ledgerVars, closed, mute, kvs, leases, nextLease, callVars,
                   id, resp, res, histVars>>

\* Mutant of KeepWrite: keep's result is not assigned by the caller, which
\* goes on with the error it had.
KeepWrite_KeepsErr(p) ==
    /\ pc[p] = "keepWrite"
    /\ lock = 0
    /\ liveKeyID' = LedgerPut(key[p], resp[p])
    /\ pc' = [pc EXCEPT ![p] = "ret"]
    /\ trail' = [trail EXCEPT ![p] = Append(@, "LedgerPut")]
    /\ UNCHANGED <<lock, sweep, storeVars, callVars, id, resp, err, res, env, histVars>>

\* keep: Lock(); e.liveKeyID[key] = resp.ID; Unlock(); return nil
KeepWrite(p) ==
    /\ pc[p] = "keepWrite"
    /\ lock = 0
    /\ liveKeyID' = LedgerPut(key[p], resp[p])
    /\ err' = [err EXCEPT ![p] = "nil"]
    /\ pc' = [pc EXCEPT ![p] = "ret"]
    /\ trail' = [trail EXCEPT ![p] = Append(@, "LedgerPut")]
    /\ UNCHANGED <<lock, sweep, storeVars, callVars, id, resp, res, env, histVars>>

\* Mutant of UpdateLease: update publishes without the looked-up lease.
UpdateLease_None(p) == NoLease

\* update: the lease handed to Put, clientv3.WithLease(id)
UpdateLease(p) == id[p]

\* update: Lock(); id := e.liveKeyID[key]; Unlock()
UpdateLookup(p) ==
    /\ pc[p] = "updLook"
    /\ lock = 0
    /\ id' = [id EXCEPT ![p] = Lookup(key[p])]
    /\ pc' = [pc EXCEPT ![p] = "updPut"]
    /\ trail' = [trail EXCEPT ![p] = Append(@, "LedgerGet")]
    /\ UNCHANGED <<ledgerVars, storeVars, callVars, resp, err, res, env, histVars>>

\* Mutant of UpdatePut: a failed publish is returned instead of healed.
UpdatePut_ReturnsError(p) ==
    /\ pc[p] = "updPut"
    /\ Answered
    /\ \/ /\ PutAccepted(UpdateLease(p))
          /\ kvs' = StorePut(key[p], val[p], UpdateLease(p))
          /\ err' = [err EXCEPT ![p] = "nil"]
          /\ trail' = [trail EXCEPT ![p] = Append(@, "Put")]
          /\ UNCHANGED env
       \/ /\ err' = [err EXCEPT ![p] = "UpdatePut"]
          /\ trail' = [trail EXCEPT ![p] = Append(@, "PutFail")]
          /\ env' = [env EXCEPT ![p] = @ \/ PutAccepted(UpdateLease(p))]
          /\ UNCHANGED kvs
    /\ pc' = [pc EXCEPT ![p] = "ret"]
    /\ UNCHANGED <<ledgerVars, closed, mute, leases, renewing, nextLease, callVars,
                   id, resp, res, histVars>>

\* update: _, err := e.client.Put(ctx, key, value, clientv3.WithLease(id));
\* if err != nil { err = e.keep(key, value) }; return err
UpdatePut(p) ==
    /\ pc[p] = "updPut"
    /\ Answered
    /\ \/ /\ PutAccepted(UpdateLease(p))
          /\ kvs' = StorePut(key[p], val[p], UpdateLease(p))
          /\ err' = [err EXCEPT ![p] = "nil"]
          /\ pc' = [pc EXCEPT ![p] = "ret"]
          /\ trail' = [trail EXCEPT ![p] = Append(@, "Put")]
          /\ UNCHANGED env
       \/ /\ err' = [err EXCEPT ![p] = "UpdatePut"]
          /\ pc' = [pc EXCEPT ![p] = "keepGrant"]
          /\ trail' = [trail EXCEPT ![p] = Append(@, "PutFail")]
          /\ env' = [env EXCEPT ![p] = @ \/ PutAccepted(UpdateLease(p))]
          /\ UNCHANGED kvs
    /\ UNCHANGED <<ledgerVars, closed, mute, leases, renewing, nextLease, callVars,
                   id, resp, res, histVars>>

\* del: Lock(); delete(e.liveKeyID, key); Unlock()
DelLedger(p) ==
    /\ pc[p] = "delLedger"
    /\ lock = 0
    /\ liveKeyID' = LedgerDelete(key[p])
    /\ pc' = [pc EXCEPT ![p] = "delDelete"]
    /\ trail' = [trail EXCEPT ![p] = Append(@, "LedgerDel")]
    /\ UNCHANGED <<lock, sweep, storeVars, callVars, id, resp, err, res, env, histVars>>

\* Mutant of DelDelete: a failed Delete puts the key back into the ledger.
DelDelete_Rollback(p) ==
    /\ pc[p] = "delDelete"
    /\ Answered
    /\ \/ /\ ~closed
          /\ kvs' = StoreDelete(key[p])
          /\ err' = [err EXCEPT ![p] = "nil"]
          /\ trail' = [trail EXCEPT ![p] = Append(@, "Delete")]
          /\ UNCHANGED <<env, liveKeyID>>
       \/ /\ lock = 0
          /\ liveKeyID' = LedgerPut(key[p], NoLease)
          /\ err' = [err EXCEPT ![p] = "Delete"]
          /\ trail' = [trail EXCEPT ![p] = Append(@, "DeleteFail")]
          /\ env' = [env EXCEPT ![p] = TRUE]
          /\ UNCHANGED kvs
    /\ pc' = [pc EXCEPT ![p] = "ret"]
    /\ UNCHANGED <<lock, sweep, closed, mute, leases, renewing, nextLease, callVars,
                   id, resp, res, histVars>>

\* Mutant of DelDelete: del returns without issuing the Delete.
DelDelete_SkipsStore(p) ==
    /\ pc[p] = "delDelete"
    /\ Answered
    /\ err' = [err EXCEPT ![p] = "nil"]
    /\ trail' = [trail EXCEPT ![p] = Append(@, "Delete")]
    /\ pc' = [pc EXCEPT ![p] = "ret"]
    /\ UNCHANGED <<ledgerVars, storeVars, callVars, id, resp, res, env, histVars>>

\* del: _, err := e.client.Delete(ctx, key); return err
DelDelete(p) ==
    /\ pc[p] = "delDelete"
    /\ Answered
    /\ \/ /\ ~closed
          /\ kvs' = StoreDelete(key[p])
          /\ err' = [err EXCEPT ![p] = "nil"]
          /\ trail' = [trail EXCEPT ![p] = Append(@, "Delete")]
          /\ UNCHANGED env
       \/ /\ err' = [err EXCEPT ![p] = "Delete"]
          /\ trail' = [trail EXCEPT ![p] = Append(@, "DeleteFail")]
          /\ env' = [env EXCEPT ![p] = TRUE]
          /\ UNCHANGED kvs
    /\ pc' = [pc EXCEPT ![p] = "ret"]
    /\ UNCHANGED <<ledgerVars, closed, mute, leases, renewing, nextLease, callVars,
                   id, resp, res, histVars>>

\* close: e.liveKeyIDLock.Lock(); for k := range e.liveKeyID {
CloseLock(p) ==
    /\ pc[p] = "closeLock"
    /\ lock = 0
    /\ lock' = p
    /\ sweep' = DOMAIN liveKeyID
    /\ pc' = [pc EXCEPT ![p] = "closeSweep"]
    /\ UNCHANGED <<liveKeyID, storeVars, callVars, id, resp, err, res, trail,
                   env, histVars>>

\* Mutant of CloseSweep: the range loop is left at the first failed Delete.
CloseSweep_StopsAtFailure(p) ==
    /\ pc[p] = "closeSweep"
    /\ Answered
    /\ \E k \in sweep :
        \/ /\ ~closed
           /\ sweep' = sweep \ {k}
           /\ kvs' = StoreDelete(k)
           /\ trail' = [trail EXCEPT ![p] = Append(@, "Delete")]
           /\ UNCHANGED env
        \/ /\ sweep' = {}
           /\ trail' = [trail EXCEPT ![p] = Append(@, "DeleteFail")]
           /\ env' = [env EXCEPT ![p] = TRUE]
           /\ UNCHANGED kvs
    /\ UNCHANGED <<liveKeyID, lock, closed, mute, leases, renewing, nextLease, pc, callVars,
                   id, resp, err, res, histVars>>

\* close: e.client.Delete(ctx, k) for the next key of the range, result dropped
CloseSweep(p) ==
    /\ pc[p] = "closeSweep"
    /\ Answered
    /\ \E k \in sweep :
        /\ sweep' = sweep \ {k}
        /\ \/ /\ ~closed
              /\ kvs' = StoreDelete(k)
              /\ trail' = [trail EXCEPT ![p] = Append(@, "Delete")]
              /\ UNCHANGED env
           \/ /\ trail' = [trail EXCEPT ![p] = Append(@, "DeleteFail")]
              /\ env' = [env EXCEPT ![p] = TRUE]
              /\ UNCHANGED kvs
    /\ UNCHANGED <<liveKeyID, lock, closed, mute, leases, renewing, nextLease, pc, callVars,
                   id, resp, err, res, histVars>>

\* close: } e.liveKeyIDLock.Unlock()
CloseUnlock(p) ==
    /\ pc[p] = "closeSweep"
    /\ sweep = {}
    /\ lock' = 0
    /\ pc' = [pc EXCEPT ![p] = "closeClient"]
    /\ UNCHANGED <<liveKeyID, sweep, storeVars, callVars, id, resp, err, res,
                   trail, env, histVars>>

\* close: return e.client.Close()
\* Closing the client ends every KeepAlive stream obtained from it.
CloseClient(p) ==
    /\ pc[p] = "closeClient"
    /\ closed' = TRUE
    /\ renewing' = {}
    /\ \E e \in {"nil", "Close"} : err' = [err EXCEPT ![p] = e]
    /\ pc' = [pc EXCEPT ![p] = "ret"]
    /\ trail' = [trail EXCEPT ![p] = Append(@, "Close")]
    /\ UNCHANGED <<ledgerVars, mute, kvs, leases, nextLease, callVars, id, resp,
                   res, env, histVars>>

\* store: Get(key), the value get keeps: the record's, "" when there is none
GetValue(k) == IF k \in DOMAIN kvs THEN kvs[k].val ELSE 0

\* get: ctx with defaultOperationTimeout; resp, err := e.client.Get(ctx, key)
Get(p) ==
    /\ pc[p] = "getGet"
    /\ \/ /\ ~closed
          /\ ~mute
          /\ res' = [res EXCEPT ![p] = <<GetValue(key[p])>>]
          /\ err' = [err EXCEPT ![p] = "nil"]
          /\ trail' = [trail EXCEPT ![p] = Append(@, "Get")]
          /\ UNCHANGED env
       \/ /\ res' = [res EXCEPT ![p] = <<0>>]
          /\ err' = [err EXCEPT ![p] = "Get"]
          /\ trail' = [trail EXCEPT ![p] = Append(@, "GetFail")]
          /\ env' = [env EXCEPT ![p] = TRUE]
    /\ pc' = [pc EXCEPT ![p] = "ret"]
    /\ UNCHANGED <<ledgerVars, storeVars, callVars, id, resp, histVars>>

\* getByPrefix: ctx with defaultOperationTimeout;
\* resp, err := e.client.Get(ctx, key, clientv3.WithPrefix())
GetByPrefix(p) ==
    /\ pc[p] = "gbpGet"
    /\ \/ /\ ~closed
          /\ ~mute
          /\ res' = [res EXCEPT ![p] = <<PrefixMap(key[p])>>]
          /\ err' = [err EXCEPT ![p] = "nil"]
          /\ trail' = [trail EXCEPT ![p] = Append(@, "Get")]
          /\ UNCHANGED env
       \/ /\ res' = [res EXCEPT ![p] = <<>>]
          /\ err' = [err EXCEPT ![p] = "Get"]
          /\ trail' = [trail EXCEPT ![p] = Append(@, "GetFail")]
          /\ env' = [env EXCEPT ![p] = TRUE]
    /\ pc' = [pc EXCEPT ![p] = "ret"]
    /\ UNCHANGED <<ledgerVars, storeVars, callVars, id, resp, histVars>>

\* Mutant of WatchChan: the WithPrefix option is left out.
WatchChan_NoPrefix(k, x) == [key |-> k, prefix |-> FALSE]

\* client: Watch(ctx, key) or Watch(ctx, key, WithPrefix()): the subscription
WatchChan(k, x) == [key |-> k, prefix |-> x]

\* watch: if watchFunc == nil { return errors.New("watchFunc is nil") };
\* watchFunc(e.client.Watch(ctx, key[, WithPrefix()])); return nil
Watch(p) ==
    /\ pc[p] = "watch"
    /\ \/ /\ ~watchFunc[p]
          /\ err' = [err EXCEPT ![p] = "watchFunc is nil"]
          /\ UNCHANGED <<res, trail>>
       \/ /\ watchFunc[p]
          /\ res' = [res EXCEPT ![p] = <<WatchChan(key[p], prefix[p])>>]
          /\ err' = [err EXCEPT ![p] = "nil"]
          /\ trail' = [trail EXCEPT ![p] = Append(Append(@, "Watch"), "Callback")]
    /\ pc' = [pc EXCEPT ![p] = "ret"]
    /\ UNCHANGED <<ledgerVars, storeVars, callVars, id, resp, env, histVars>>

\* The operation returns to its caller; its locals die with the frame.
Return(p) ==
    /\ pc[p] = "ret"
    /\ last' = IF rec THEN <<[op |-> op[p], key |-> key[p], val |-> val[p], err |-> err[p]]>> ELSE last
    /\ pc' = [pc EXCEPT ![p] = "idle"]
    /\ op' = [op EXCEPT ![p] = "none"]
    /\ key' = [key EXCEPT ![p] = <<>>]
    /\ val' = [val EXCEPT ![p] = 0]
    /\ watchFunc' = [watchFunc EXCEPT ![p] = FALSE]
    /\ prefix' = [prefix EXCEPT ![p] = FALSE]
    /\ id' = [id EXCEPT ![p] = NoLease]
    /\ resp' = [resp EXCEPT ![p] = NoLease]
    /\ err' = [err EXCEPT ![p] = "nil"]
    /\ res' = [res EXCEPT ![p] = <<>>]
    /\ trail' = [trail EXCEPT ![p] = <<>>]
    /\ env' = [env EXCEPT ![p] = FALSE]
    /\ pre' = [pre EXCEPT ![p] = NoSnapshot]
    /\ UNCHANGED <<ledgerVars, storeVars, rec, calls>>

\* ------------------------------------------------------------- the store
\* A lease nobody renews runs out of its TTL: the store drops it and every
\* record attached to it.
Expire ==
    /\ \E l \in leases \ renewing :
        /\ leases' = leases \ {l}
        /\ kvs' = DropLease(l)
    /\ env' = [p \in Procs |-> env[p] \/ Busy(p)]
    /\ UNCHANGED <<ledgerVars, closed, mute, renewing, nextLease, pc, callVars, id,
                   resp, err, res, trail, histVars>>

\* A renewed lease is lost all the same: revoked from outside, or its
\* renewals did not reach the store in time.
Revoke ==
    /\ \E l \in leases \cap renewing :
        /\ leases' = leases \ {l}
        /\ renewing' = renewing \ {l}
        /\ kvs' = DropLease(l)
    /\ env' = [p \in Procs |-> env[p] \/ Busy(p)]
    /\ UNCHANGED <<ledgerVars, closed, mute, nextLease, pc, callVars, id, resp, err,
                   res, trail, histVars>>

Step(p) ==
    \/ Call(p)
    \/ KeepGrant(p)
    \/ KeepPut(p)
    \/ KeepAlive(p)
    \/ KeepWrite(p)
    \/ UpdateLookup(p)
    \/ UpdatePut(p)
    \/ DelLedger(p)
    \/ DelDelete(p)
    \/ CloseLock(p)
    \/ CloseSweep(p)
    \/ CloseUnlock(p)
    \/ CloseClient(p)
    \/ Get(p)
    \/ GetByPrefix(p)
    \/ Watch(p)
    \/ Return(p)

Next ==
    \/ \E p \in Procs : Step(p)
    \/ Expire
    \/ Revoke

\* Any number of goroutines call into the registry concurrently.
Spec == Init /\ [][Next]_vars

\* The store stops answering, for good.
Silence ==
    /\ ~mute
    /\ ~closed
    /\ mute' = TRUE
    /\ UNCHANGED <<ledgerVars, kvs, leases, renewing, nextLease, closed, pc, callVars,
                   id, resp, err, res, trail, env, histVars>>

MuteNext ==
    \/ Next
    \/ Silence

\* Concurrent callers against a store that may fall silent.
MuteSpec == Init /\ [][MuteNext]_vars

\* One caller: every operation returns before the next one is invoked.
SeqNext ==
    \/ Step(1)
    \/ Expire
    \/ Revoke

\* The single-caller runs keep the log of returned operations.
SeqInit ==
    /\ liveKeyID = EmptyMap
    /\ lock = 0
    /\ sweep = {}
    /\ closed = FALSE
    /\ mute = FALSE
    /\ kvs = EmptyMap
    /\ leases = {}
    /\ renewing = {}
    /\ nextLease = 1
    /\ pc = [p \in Procs |-> "idle"]
    /\ op = [p \in Procs |-> "none"]
    /\ key = [p \in Procs |-> <<>>]
    /\ val = [p \in Procs |-> 0]
    /\ watchFunc = [p \in Procs |-> FALSE]
    /\ prefix = [p \in Procs |-> FALSE]
    /\ id = [p \in Procs |-> NoLease]
    /\ resp = [p \in Procs |-> NoLease]
    /\ err = [p \in Procs |-> "nil"]
    /\ res = [p \in Procs |-> <<>>]
    /\ trail = [p \in Procs |-> <<>>]
    /\ env = [p \in Procs |-> FALSE]
    /\ pre = [p \in Procs |-> NoSnapshot]
    /\ rec = TRUE
    /\ last = <<>>
    /\ calls = 0

SeqSpec == SeqInit /\ [][SeqNext]_vars

\* ------------------------------------------------------------ properties
Last(t) == t[Len(t)]

KeepPcs == {"keepGrant", "keepPut", "keepAlive", "keepWrite"}
Registering == {"keep", "update"}

\* The ledger entry of k is backed: the store holds k under the very lease
\* the ledger names, that lease is alive and a stream renews it.
Converged(k) ==
    /\ k \in DOMAIN liveKeyID
    /\ k \in DOMAIN kvs
    /\ kvs[k].lease = liveKeyID[k]
    /\ liveKeyID[k] \in leases \cap renewing

C2_RegisterOrder ==
    [][\A p \in Procs :
        (pc[p] \in KeepPcs /\ pc'[p] # pc[p]) =>
            LET t == trail'[p]
                n == Len(t)
            IN  /\ liveKeyID' # liveKeyID =>
                    /\ n >= 4
                    /\ SubSeq(t, n - 3, n) = <<"Grant", "Put", "KeepAlive", "LedgerPut">>
                    /\ resp[p] # NoLease
                    /\ DOMAIN liveKeyID' = DOMAIN liveKeyID \cup {key[p]}
                    /\ liveKeyID'[key[p]] = resp[p]
                    /\ \A k \in DOMAIN liveKeyID \ {key[p]} : liveKeyID'[k] = liveKeyID[k]
                /\ (pc'[p] = "ret" /\ err'[p] = "nil") => liveKeyID' # liveKeyID
                /\ (pc'[p] = "ret" /\ err'[p] # "nil") =>
                    /\ liveKeyID' = liveKeyID
                    /\ \/ t[n] = "GrantFail" /\ err'[p] = "Grant"
                       \/ t[n] = "PutFail" /\ err'[p] = "Put"
                       \/ t[n] = "KeepAliveFail" /\ err'[p] = "KeepAlive"
                /\ pc'[p] # "ret" => liveKeyID' = liveKeyID]_vars

\* C2 witness: a registration of a key that already has a ledger entry has
\* returned the error of its failed renewal start.
C2_Witness ==
    \E p \in Procs :
        /\ pc[p] = "ret"
        /\ op[p] = "keep"
        /\ err[p] = "KeepAlive"
        /\ key[p] \in DOMAIN liveKeyID

\* A registration (direct or as update's fallback) has returned because its
\* publish step failed.
PublishFailed(p) ==
    /\ pc[p] = "ret"
    /\ op[p] \in Registering
    /\ err[p] = "Put"

C4_UpdateHeals ==
    \A p \in Procs :
        (pc[p] = "ret" /\ op[p] = "update") =>
            LET t == trail[p]
                n == Len(t)
            IN  /\ err[p] # "UpdatePut"
                /\ n >= 2
                /\ t[1] = "LedgerGet"
                /\ t[2] \in {"Put", "PutFail"}
                /\ t[2] = "Put" => (n = 2 /\ err[p] = "nil" /\ liveKeyID = pre[p].ledger)
                /\ t[2] = "PutFail" =>
                    /\ n >= 3
                    /\ t[3] \in {"Grant", "GrantFail"}
                    /\ err[p] = "nil" <=> SubSeq(t, 3, n) = <<"Grant", "Put", "KeepAlive", "LedgerPut">>
                    /\ err[p] = "Grant" <=> t[n] = "GrantFail"
                    /\ err[p] = "Put" <=> t[n] = "PutFail" /\ n > 2
                    /\ err[p] = "KeepAlive" <=> t[n] = "KeepAliveFail"

\* C4 witness: update's own publish failed and update returned nil.
C4_Witness ==
    \E p \in Procs :
        /\ pc[p] = "ret"
        /\ op[p] = "update"
        /\ err[p] = "nil"
        /\ trail[p][2] = "PutFail"

\* update(K, V) has returned, no store fault and no lease loss hit the call,
\* and the ledger named lease `id` for K when update looked it up.
CleanUpdate(p) ==
    /\ pc[p] = "ret"
    /\ op[p] = "update"
    /\ ~env[p]

\* C5: when the lease the ledger names for K is dead and the store is
\* otherwise healthy, update(K, V) returns nil, the store holds K with value
\* V under a live, newly granted lease, and the ledger names that new lease.
C5_SelfHeal ==
    \A p \in Procs :
        (CleanUpdate(p) /\ id[p] # NoLease /\ id[p] \notin leases) =>
            /\ err[p] = "nil"
            /\ key[p] \in DOMAIN kvs
            /\ key[p] \in DOMAIN liveKeyID
            /\ kvs[key[p]] = [val |-> val[p], lease |-> liveKeyID[key[p]]]
            /\ liveKeyID[key[p]] \in leases
            /\ liveKeyID[key[p]] # id[p]
            /\ pre[p].ledger[key[p]] = id[p]

\* C5 witness: the second of two updates of K found K's lease dead.
C5_Witness ==
    \E p \in Procs :
        /\ CleanUpdate(p)
        /\ id[p] # NoLease
        /\ id[p] \notin leases
        /\ last # <<>>
        /\ last[1].op = "update"
        /\ last[1].key = key[p]
        /\ last[1].err = "nil"

\* The operation that returned last was a successful update with the same
\* key and value as the update p has just finished.
SecondUpdate(p) ==
    /\ CleanUpdate(p)
    /\ id[p] # NoLease
    /\ id[p] \in leases
    /\ last = <<[op |-> "update", key |-> key[p], val |-> val[p], err |-> "nil"]>>

\* C6: a second update(K, V) of a registered key, with no lease loss and no
\* store fault, leaves the store and the ledger as the first left them: K
\* holds V under the lease the ledger names, the same as before.
C6_UpdateIdempotent ==
    \A p \in Procs :
        SecondUpdate(p) =>
            /\ err[p] = "nil"
            /\ kvs = pre[p].kvs
            /\ liveKeyID = pre[p].ledger
            /\ kvs[key[p]] = [val |-> val[p], lease |-> id[p]]
            /\ liveKeyID[key[p]] = id[p]

\* C6 witness: a second update of a registered key has returned.
C6_Witness ==
    \E p \in Procs : SecondUpdate(p) /\ id[p] \in renewing

\* When update was invoked the ledger and the store disagreed about K: a
\* ledger entry with a dead lease, or a record without a lease and no entry.
Disagreed(p) ==
    LET k == key[p]
    IN  \/ k \in DOMAIN pre[p].ledger /\ pre[p].ledger[k] \notin leases
        \/ /\ k \notin DOMAIN pre[p].ledger
           /\ k \in DOMAIN pre[p].kvs
           /\ pre[p].kvs[k].lease = NoLease

\* C7 as stated: from either disagreement one update cycle that meets no
\* store failure ends with the ledger entry of K backed by the store.
C7_EveryDisagreementHeals ==
    \A p \in Procs : (CleanUpdate(p) /\ Disagreed(p)) => Converged(key[p])

\* C7 amended: whenever the ledger has an entry for K, one update cycle
\* that meets no store failure ends with that entry backed by the store.
C7_LedgeredKeyHeals ==
    \A p \in Procs : (CleanUpdate(p) /\ id[p] # NoLease) => Converged(key[p])

\* C7 witness: an update of K failed, and the next update found the ledger
\* entry of K with a dead lease and healed it.
C7_Witness ==
    \E p \in Procs :
        /\ CleanUpdate(p)
        /\ id[p] # NoLease
        /\ id[p] \notin leases
        /\ last # <<>>
        /\ last[1].op = "update"
        /\ last[1].key = key[p]
        /\ last[1].err # "nil"

\* C8 as stated: every record in the store is attached to a non-zero lease.
C8_EveryRecordLeased ==
    \A k \in DOMAIN kvs : kvs[k].lease # NoLease

\* C8 amended: a publish attaches the record to a live non-zero lease, except
\* update's publish for a key whose lookup found no ledger entry, which
\* attaches it to the zero lease; a record with a non-zero lease lives only
\* as long as that lease; and once the client is closed no lease is renewed
\* or granted any more, so the store's expiry is left to remove every such
\* record.  Records under the zero lease stay.
C8_LeasedUnlessUnledgered ==
    /\ [][\A k \in DOMAIN kvs' :
            (k \notin DOMAIN kvs \/ kvs'[k] # kvs[k]) =>
                IF kvs'[k].lease = NoLease
                THEN \E p \in Procs :
                        /\ pc[p] = "updPut"
                        /\ pc'[p] = "ret"
                        /\ key[p] = k
                        /\ id[p] = NoLease
                ELSE kvs'[k].lease \in leases']_vars
    /\ [](\A k \in DOMAIN kvs : kvs[k].lease # NoLease => kvs[k].lease \in leases)
    /\ [](closed => renewing = {})
    /\ [][closed => leases' \subseteq leases]_vars

\* C8 witness: close could not delete the registered key, the client is
\* closed, and the store has dropped the lease and with it the record.
C8_Witness ==
    \E p \in Procs :
        /\ pc[p] = "ret"
        /\ op[p] = "close"
        /\ trail[p] = <<"DeleteFail", "Close">>
        /\ closed
        /\ leases = {}
        /\ kvs = EmptyMap

\* C9: del first removes its key, and only its key, from the ledger, before
\* any store call; then it issues the Delete, returns the Delete's error
\* exactly when the Delete failed, and leaves the ledger as the removal
\* left it.
C9_DeregisterOrder ==
    [][\A p \in Procs :
        /\ (pc[p] = "delLedger" /\ pc'[p] # pc[p]) =>
            /\ trail[p] = <<>>
            /\ kvs' = kvs
            /\ DOMAIN liveKeyID' = DOMAIN liveKeyID \ {key[p]}
            /\ \A k \in DOMAIN liveKeyID' : liveKeyID'[k] = liveKeyID[k]
            /\ pc'[p] = "delDelete"
        /\ (pc[p] = "delDelete" /\ pc'[p] # pc[p]) =>
            /\ trail[p] = <<"LedgerDel">>
            /\ liveKeyID' = liveKeyID
            /\ pc'[p] = "ret"
            /\ \/ /\ err'[p] = "nil"
                  /\ key[p] \notin DOMAIN kvs'
               \/ /\ err'[p] = "Delete"
                  /\ kvs' = kvs]_vars

\* C9 witness: del has returned the Delete's error; the key is still in the
\* store and no longer in the ledger.
C9_Witness ==
    \E p \in Procs :
        /\ pc[p] = "ret"
        /\ op[p] = "del"
        /\ err[p] = "Delete"
        /\ key[p] \in DOMAIN kvs
        /\ key[p] \notin DOMAIN liveKeyID

\* getByPrefix has returned a map, and the operation that returned just
\* before it was a successful del of k, a key the prefix matches.
ReadAfterDeregister(p, k) ==
    /\ pc[p] = "ret"
    /\ op[p] = "getByPrefix"
    /\ err[p] = "nil"
    /\ HasPrefix(k, key[p])
    /\ last # <<>>
    /\ last[1].op = "del"
    /\ last[1].key = k
    /\ last[1].err = "nil"

\* C10: a getByPrefix that follows a successful deregister of K, on a prefix
\* of K, returns a map with no entry for K, and the ledger has no entry for K.
C10_DeregisterThenRead ==
    \A p \in Procs : \A k \in Keys :
        ReadAfterDeregister(p, k) =>
            /\ Len(res[p]) = 1
            /\ k \notin DOMAIN res[p][1]
            /\ k \notin DOMAIN liveKeyID

\* C10 witness: three operations ran, a registration of "aa" (its renewed
\* lease is still alive), its deregistration, and a read of prefix "a".
C10_Witness ==
    \E p \in Procs :
        /\ ReadAfterDeregister(p, <<1, 1>>)
        /\ key[p] = <<1>>
        /\ calls = 3
        /\ liveKeyID = EmptyMap
        /\ renewing # {}

\* The calls an operation has made so far, as a set.
Range(t) == {t[i] : i \in 1..Len(t)}

\* A single caller's close() has returned.
CloseReturned(p) == pc[p] = "ret" /\ op[p] = "close"

\* C11: close() issues one Delete for every key that is in the ledger when
\* the sweep runs, each for a key not yet visited, goes on with the rest when
\* a Delete fails, and closes the client whatever the Deletes did; a key of
\* the ledger is still in the store afterwards only if a Delete failed.
C11_CloseSweepsEveryKey ==
    /\ [](\A p \in Procs :
            CloseReturned(p) =>
                LET n == Cardinality(DOMAIN pre[p].ledger) IN
                /\ Len(trail[p]) = n + 1
                /\ \A i \in 1..n : trail[p][i] \in {"Delete", "DeleteFail"}
                /\ trail[p][n + 1] = "Close"
                /\ closed
                /\ lock = 0
                /\ \A k \in DOMAIN pre[p].ledger :
                       k \in DOMAIN kvs => "DeleteFail" \in Range(trail[p]))
    /\ [][\A p \in Procs :
            pc[p] = "closeSweep" /\ trail'[p] # trail[p] =>
                \E k \in sweep :
                    /\ k \in DOMAIN liveKeyID
                    /\ sweep' = sweep \ {k}
                    /\ \/ Last(trail'[p]) = "Delete" /\ DOMAIN kvs' = DOMAIN kvs \ {k}
                       \/ Last(trail'[p]) = "DeleteFail" /\ kvs' = kvs]_vars

\* C11 witness: both keys were registered, close() swept them with no fault,
\* and the store holds neither.
C11_Witness ==
    \E p \in Procs :
        /\ CloseReturned(p)
        /\ ~env[p]
        /\ DOMAIN pre[p].ledger = Keys
        /\ DOMAIN pre[p].kvs = Keys
        /\ kvs = EmptyMap
        /\ closed

\* The trail entries that stand for a store call that returned an error.
FailEvents == {"GrantFail", "PutFail", "KeepAliveFail", "DeleteFail", "GetFail"}

\* C12 as stated: an operation other than update that met a store failure
\* returns an error to its caller; no failure is dropped, a failed per-key
\* Delete during close included.
C12_NoFailureDropped ==
    \A p \in Procs :
        /\ pc[p] = "ret"
        /\ op[p] \in {"keep", "del", "close", "get", "getByPrefix", "watch"}
        /\ Range(trail[p]) \cap FailEvents # {}
        => err[p] # "nil"

\* C13: watch with a nil callback returns an error, makes no store call and
\* leaves the ledger alone; with a callback it opens exactly one
\* subscription on key, prefix-scoped exactly when prefix is true, hands it
\* to the callback once and returns no error, the ledger again unchanged.
C13_Watch ==
    [][\A p \in Procs :
        pc[p] = "watch" /\ pc'[p] # "watch" =>
            /\ pc'[p] = "ret"
            /\ <<liveKeyID, lock, sweep>>' = <<liveKeyID, lock, sweep>>
            /\ <<kvs, leases, renewing>>' = <<kvs, leases, renewing>>
            /\ IF watchFunc[p]
               THEN /\ err'[p] = "nil"
                    /\ trail'[p] = <<"Watch", "Callback">>
                    /\ res'[p] = <<[key |-> key[p], prefix |-> prefix[p]]>>
               ELSE /\ err'[p] # "nil"
                    /\ trail'[p] = <<>>
                    /\ res'[p] = <<>>]_vars

\* C13 witness: a prefix watch on "a" returned with its subscription handed
\* over while the ledger holds a registered key.
C13_Witness ==
    \E p \in Procs :
        /\ pc[p] = "ret"
        /\ op[p] = "watch"
        /\ watchFunc[p]
        /\ prefix[p]
        /\ key[p] = <<1>>
        /\ err[p] = "nil"
        /\ res[p] = <<[key |-> <<1>>, prefix |-> TRUE]>>
        /\ liveKeyID # EmptyMap

\* Key k starts with p: p is one of k's initial segments.
StartsWith(k, p) == \E n \in 0..Len(k) : p = [i \in 1..n |-> k[i]]

\* C14: getByPrefix(P) returns exactly the mapping key -> value of the store
\* records whose key starts with P at the time of the read (the empty
\* mapping, and no error, when none does), or on a failed read the error and
\* no mapping; the ledger and the store are unchanged in every case.
C14_GetByPrefix ==
    [][\A p \in Procs :
        pc[p] = "gbpGet" /\ pc'[p] # "gbpGet" =>
            /\ pc'[p] = "ret"
            /\ <<liveKeyID, lock, sweep>>' = <<liveKeyID, lock, sweep>>
            /\ kvs' = kvs
            /\ \/ /\ err'[p] = "nil"
                  /\ Len(res'[p]) = 1
                  /\ DOMAIN res'[p][1] = {k \in DOMAIN kvs : StartsWith(k, key[p])}
                  /\ \A k \in DOMAIN res'[p][1] : res'[p][1][k] = kvs[k].val
               \/ /\ err'[p] # "nil"
                  /\ res'[p] = <<>>]_vars

\* C14 witness: the store holds "a" only and getByPrefix("aa") returned the
\* empty mapping with no error.
C14_Witness ==
    \E p \in Procs :
        /\ pc[p] = "ret"
        /\ op[p] = "getByPrefix"
        /\ key[p] = <<1, 1>>
        /\ DOMAIN kvs = {<<1>>}
        /\ err[p] = "nil"
        /\ res[p] = <<EmptyMap>>

\* C15 as stated: every store call of register, update, deregister, close,
\* get and getByPrefix is bounded by a timeout, so an operation that is not
\* waiting for the ledger lock can always take its next step and return,
\* also when the store never answers.
C15_EveryCallReturns ==
    \A p \in Procs : Busy(p) /\ lock \in {0, p} => ENABLED Step(p)

\* The trail entries that stand for a call to the store, answered or failed.
StoreEvents ==
    FailEvents \cup {"Grant", "Put", "KeepAlive", "Delete", "Get", "Watch", "Close"}

\* Goroutine p makes a store call in this step.
StoreCall(p) ==
    /\ Len(trail'[p]) > Len(trail[p])
    /\ \E i \in (Len(trail[p]) + 1)..Len(trail'[p]) : trail'[p][i] \in StoreEvents

\* C16 as stated: no operation makes a store call while it holds the ledger
\* lock, close() during its sweep included.
C16_NoStoreCallUnderLock ==
    [][\A p \in Procs : StoreCall(p) => lock # p]_vars

\* C17: the ledger changes in two ways only.  The last step of a register or
\* of a self-healing update sets the entry of its key, whether or not one
\* exists, to the lease that call was granted, a lease no entry names yet,
\* and leaves the other entries alone; the ledger step of a deregister
\* removes the entry of its key.  Every entry names one granted lease.
C17_OneLeasePerKey ==
    /\ [][\A p \in Procs :
            pc[p] = "keepWrite" /\ pc'[p] # "keepWrite" =>
                /\ resp[p] # NoLease
                /\ \A k \in DOMAIN liveKeyID : liveKeyID[k] # resp[p]
                /\ DOMAIN liveKeyID' = DOMAIN liveKeyID \cup {key[p]}
                /\ liveKeyID'[key[p]] = resp[p]
                /\ \A k \in DOMAIN liveKeyID \ {key[p]} : liveKeyID'[k] = liveKeyID[k]]_vars
    /\ [][liveKeyID' # liveKeyID =>
            \E p \in Procs :
                \/ /\ op[p] \in Registering
                   /\ pc[p] = "keepWrite"
                   /\ pc'[p] = "ret"
                \/ /\ op[p] = "del"
                   /\ pc[p] = "delLedger"
                   /\ pc'[p] = "delDelete"
                   /\ DOMAIN liveKeyID' = DOMAIN liveKeyID \ {key[p]}
                   /\ \A k \in DOMAIN liveKeyID' : liveKeyID'[k] = liveKeyID[k]]_vars
    /\ [](\A k \in DOMAIN liveKeyID : liveKeyID[k] \in 1..(nextLease - 1))

\* C17 witness: a self-healing update found lease id in the ledger for its
\* key and returned with the entry overwritten by the lease it was granted.
C17_Witness ==
    \E p \in Procs :
        /\ pc[p] = "ret"
        /\ op[p] = "update"
        /\ err[p] = "nil"
        /\ id[p] # NoLease
        /\ resp[p] \notin {NoLease, id[p]}
        /\ key[p] \in DOMAIN liveKeyID
        /\ liveKeyID[key[p]] = resp[p]

\* Goroutine p's operation has returned without an error, and no store fault
\* or lease loss happened while it ran.
ReturnedClean(p) == pc[p] = "ret" /\ err[p] = "nil" /\ ~env[p]

\* C18 as stated: when concurrent register/update calls on one key have all
\* returned, the lease the ledger holds for the key is the lease the store's
\* record of the key is attached to.
C18_LedgerMatchesLastPublish ==
    \A p, q \in Procs :
        /\ p # q
        /\ ReturnedClean(p) /\ op[p] \in Registering
        /\ ReturnedClean(q) /\ op[q] \in Registering
        /\ key[p] = key[q]
        => /\ key[p] \in DOMAIN kvs
           /\ kvs[key[p]].lease = Lookup(key[p])

\* C19 as stated: when a deregister of a key and a register or self-healing
\* update of the same key ran concurrently and both have returned, the
\* ledger has an entry for the key only if the store holds a record for it.
C19_NoEntryWithoutRecord ==
    \A p, q \in Procs :
        /\ ReturnedClean(p) /\ op[p] = "del"
        /\ ReturnedClean(q) /\ op[q] \in Registering
        /\ key[p] = key[q]
        => (key[p] \in DOMAIN liveKeyID => key[p] \in DOMAIN kvs)

\* Lease l belongs to a registration that has not yet reached its ledger
\* write or its return.
InFlight(l) == \E p \in Procs : pc[p] \in {"keepAlive", "keepWrite"} /\ resp[p] = l

\* C20 as stated: no renewed lease is leaked: every lease that is alive and
\* has a renewal stream is the lease the ledger records for some key, or
\* that of a registration still on its way to the ledger write.
C20_NoLeakedRenewal ==
    \A l \in leases \cap renewing :
        \/ \E k \in DOMAIN liveKeyID : liveKeyID[k] = l
        \/ InFlight(l)

====
